---- MODULE Spec2Model ----
(***************************************************************************)
(* The subscription lifecycle of the ObservableFetchQuery component of the *)
(* sysmon-client demo: componentDidMount subscribes to the observable      *)
(* returned by graphqlObserve and stores the subscription, the three       *)
(* observer callbacks copy what the observable delivers into this.state,   *)
(* and componentWillUnmount unsubscribes and clears the subscription.      *)
(*                                                                         *)
(* The observable (../graphql-observable) is not part of the sources at    *)
(* hand.  It is modelled as the specification describes the Subscription   *)
(* Source: every subscribe returns a fresh handle, and the callbacks of a  *)
(* handle may be delivered at any later moment, a delivery that was in     *)
(* flight when the handle was released and a delivery after a terminal     *)
(* signal included.                                                        *)
(***************************************************************************)
EXTENDS Integers, FiniteSets

\* ---- bounds ----
MaxHandles == 2
NumPayloads == 2
NumErrors == 2

\* ---- values ----
\* this.subscription = null
null == 0
\* response: '' and error: '' of the constructor
EmptyStr == 0
\* an error callback invoked with no value (undefined) or with null
Absent == -1

Handles == 1..MaxHandles
Payloads == 1..NumPayloads
ErrorObjects == 1..NumErrors
ErrorValues == ErrorObjects \cup {Absent}

VARIABLES
  subscription,    \* this.subscription: null or the handle held
  state,           \* this.state: [response, complete, error]
  issued,          \* number of handles the source has returned so far
  released,        \* released[h]: number of unsubscribe() calls on handle h
  terminated,      \* handles for which complete or error has been delivered
  thrown,          \* the last lifecycle call threw to its caller
  phase,           \* position of the hosting route in the view's lifetime
  \* history of the run, read only by the properties
  activated,       \* componentDidMount has been called at least once
  activateRaised,  \* the last componentDidMount found invokeQuery raising
  heldOnActivate,  \* some componentDidMount ran while a handle was held
  consecDeact,     \* componentWillUnmount calls since the last mount (max 2)
  relInRun,        \* unsubscribe() calls made by those calls (max 2)
  heldAtDeact,     \* handle held when the last componentWillUnmount began
  atDeactivate,    \* this.state when the last componentWillUnmount ended
  delivered,       \* payload of the last next since the last mount
  lateNext,        \* a next was delivered for a terminated handle
  anyCallback      \* some callback has been delivered since construction

coreVars == <<subscription, state, issued, released, terminated, thrown>>
histVars == <<activated, activateRaised, heldOnActivate, consecDeact,
              relInRun, heldAtDeact, atDeactivate, delivered, lateNext>>
vars == <<coreVars, histVars, anyCallback, phase>>

\* ---- constructor ----
InitState == [response |-> EmptyStr, complete |-> FALSE, error |-> EmptyStr]

constructor ==
  /\ subscription = null
  /\ state = InitState

\* ---- this.setState(patch): the fields of patch replace those of this.state
SetState_Replace(s, patch) ==
  [f \in DOMAIN s |-> IF f \in DOMAIN patch THEN patch[f] ELSE InitState[f]]

SetState(s, patch) ==
  [f \in DOMAIN s |-> IF f \in DOMAIN patch THEN patch[f] ELSE s[f]]

Min(a, b) == IF a < b THEN a ELSE b

\* handles obtained from the source and not yet released
Outstanding == {h \in 1..issued : released[h] = 0}

\* ---- the Subscription Source ----
\* graphqlObserve(...).subscribe(observer): either raises while the request
\* is constructed, or returns a handle no earlier call returned
SourceOutcomes == {"handle", "raise"}

\* ---- observer callbacks (invokeQuery) ----
subscribe_next_Keep(h, p) ==
  /\ h \in 1..issued
  /\ state' = IF state.response = EmptyStr
                THEN SetState(state, [response |-> p]) ELSE state
  /\ delivered' = p
  /\ lateNext' = (lateNext \/ h \in terminated)
  /\ anyCallback' = TRUE
  /\ UNCHANGED <<subscription, issued, released, terminated, thrown, phase>>
  /\ UNCHANGED <<activated, activateRaised, heldOnActivate, consecDeact,
                 relInRun, heldAtDeact, atDeactivate>>

subscribe_next(h, p) ==
  /\ h \in 1..issued
  /\ state' = SetState(state, [response |-> p])
  /\ delivered' = p
  /\ lateNext' = (lateNext \/ h \in terminated)
  /\ anyCallback' = TRUE
  /\ UNCHANGED <<subscription, issued, released, terminated, thrown, phase>>
  /\ UNCHANGED <<activated, activateRaised, heldOnActivate, consecDeact,
                 relInRun, heldAtDeact, atDeactivate>>

subscribe_complete(h) ==
  /\ h \in 1..issued
  /\ state' = SetState(state, [complete |-> TRUE])
  /\ terminated' = terminated \cup {h}
  /\ UNCHANGED <<subscription, issued, released, thrown, phase>>
  /\ anyCallback' = TRUE
  /\ UNCHANGED histVars

subscribe_error(h, e) ==
  /\ h \in 1..issued
  /\ state' = SetState(state, [error |-> e])
  /\ terminated' = terminated \cup {h}
  /\ UNCHANGED <<subscription, issued, released, thrown, phase>>
  /\ anyCallback' = TRUE
  /\ UNCHANGED histVars

\* ---- componentDidMount: this.subscription = this.invokeQuery() ----
\* No try/catch: when invokeQuery raises, the assignment does not happen and
\* the exception leaves componentDidMount.
componentDidMount ==
  /\ issued < MaxHandles
  /\ \E outcome \in SourceOutcomes :
       IF outcome = "raise"
         THEN /\ thrown' = TRUE
              /\ activateRaised' = TRUE
              /\ UNCHANGED <<subscription, issued>>
         ELSE /\ subscription' = issued + 1
              /\ issued' = issued + 1
              /\ thrown' = FALSE
              /\ activateRaised' = FALSE
  /\ activated' = TRUE
  /\ heldOnActivate' = (heldOnActivate \/ subscription # null)
  /\ consecDeact' = 0
  /\ relInRun' = 0
  /\ heldAtDeact' = null
  /\ atDeactivate' = InitState
  /\ delivered' = EmptyStr
  /\ UNCHANGED <<state, released, terminated, lateNext, anyCallback>>

\* ---- componentWillUnmount ----
componentWillUnmount_NoClear ==
  /\ IF subscription # null
       THEN /\ released' = [released EXCEPT ![subscription] = Min(@ + 1, 2)]
            /\ relInRun' = Min(relInRun + 1, 2)
       ELSE UNCHANGED <<released, relInRun>>
  /\ UNCHANGED subscription
  /\ thrown' = FALSE
  /\ consecDeact' = Min(consecDeact + 1, 2)
  /\ heldAtDeact' = subscription
  /\ atDeactivate' = state
  /\ UNCHANGED <<state, issued, terminated>>
  /\ UNCHANGED <<activated, activateRaised, heldOnActivate, delivered, lateNext,
                 anyCallback>>

componentWillUnmount_NoUnsubscribe ==
  /\ subscription' = null
  /\ thrown' = FALSE
  /\ consecDeact' = Min(consecDeact + 1, 2)
  /\ heldAtDeact' = subscription
  /\ atDeactivate' = state
  /\ UNCHANGED <<state, issued, terminated, released, relInRun>>
  /\ UNCHANGED <<activated, activateRaised, heldOnActivate, delivered, lateNext,
                 anyCallback>>

componentWillUnmount_NoGuard ==
  /\ IF subscription # null
       THEN /\ released' = [released EXCEPT ![subscription] = Min(@ + 1, 2)]
            /\ relInRun' = Min(relInRun + 1, 2)
            /\ thrown' = FALSE
       ELSE /\ thrown' = TRUE
            /\ UNCHANGED <<released, relInRun>>
  /\ subscription' = null
  /\ consecDeact' = Min(consecDeact + 1, 2)
  /\ heldAtDeact' = subscription
  /\ atDeactivate' = state
  /\ UNCHANGED <<state, issued, terminated>>
  /\ UNCHANGED <<activated, activateRaised, heldOnActivate, delivered, lateNext,
                 anyCallback>>

componentWillUnmount_ResetState ==
  /\ IF subscription # null
       THEN /\ released' = [released EXCEPT ![subscription] = Min(@ + 1, 2)]
            /\ relInRun' = Min(relInRun + 1, 2)
            /\ subscription' = null
       ELSE UNCHANGED <<subscription, released, relInRun>>
  /\ state' = InitState
  /\ thrown' = FALSE
  /\ consecDeact' = Min(consecDeact + 1, 2)
  /\ heldAtDeact' = subscription
  /\ atDeactivate' = state
  /\ UNCHANGED <<issued, terminated>>
  /\ UNCHANGED <<activated, activateRaised, heldOnActivate, delivered, lateNext,
                 anyCallback>>

componentWillUnmount ==
  /\ IF subscription # null
       THEN /\ released' = [released EXCEPT ![subscription] = Min(@ + 1, 2)]
            /\ relInRun' = Min(relInRun + 1, 2)
            /\ subscription' = null
       ELSE UNCHANGED <<subscription, released, relInRun>>
  /\ thrown' = FALSE
  /\ consecDeact' = Min(consecDeact + 1, 2)
  /\ heldAtDeact' = subscription
  /\ atDeactivate' = state
  /\ UNCHANGED <<state, issued, terminated>>
  /\ UNCHANGED <<activated, activateRaised, heldOnActivate, delivered, lateNext,
                 anyCallback>>

\* ---- the controller driven through its two lifecycle methods ----
Init ==
  /\ constructor
  /\ issued = 0
  /\ released = [h \in Handles |-> 0]
  /\ terminated = {}
  /\ thrown = FALSE
  /\ phase = "unmounted"
  /\ activated = FALSE
  /\ activateRaised = FALSE
  /\ heldOnActivate = FALSE
  /\ consecDeact = 0
  /\ relInRun = 0
  /\ heldAtDeact = null
  /\ atDeactivate = InitState
  /\ delivered = EmptyStr
  /\ lateNext = FALSE
  /\ anyCallback = FALSE

Activate == componentDidMount /\ UNCHANGED phase

Deactivate == componentWillUnmount /\ UNCHANGED phase

DeliverNext == \E h \in Handles : \E p \in Payloads : subscribe_next(h, p)

DeliverComplete == \E h \in Handles : subscribe_complete(h)

DeliverError == \E h \in Handles : \E e \in ErrorValues : subscribe_error(h, e)

Next ==
  \/ Activate
  \/ Deactivate
  \/ DeliverNext
  \/ DeliverComplete
  \/ DeliverError

Spec == Init /\ [][Next]_vars

\* ---- render: <div>Error: {error.message}</div> ----
\* Reading .message of undefined or null raises a TypeError; '' and an Error
\* object have the property.
RenderFaults(s) == s.error = Absent

\* ---- the controller hosted by its route (App.js) ----
\* The route mounts the component once; the view's lifetime ends when the
\* switch selects another route ("leaving") or when a lifecycle method or
\* render raises ("failing"); either way the host then calls
\* componentWillUnmount.
TearingDown == phase \in {"leaving", "failing"}

Ended == phase \in {"left", "failed"}

Mount ==
  /\ phase = "unmounted"
  /\ componentDidMount
  /\ phase' = IF thrown' THEN "failing" ELSE "mounted"

Navigate ==
  /\ phase = "mounted"
  /\ phase' = "leaving"
  /\ UNCHANGED <<coreVars, histVars, anyCallback>>

RenderFault ==
  /\ phase = "mounted"
  /\ RenderFaults(state)
  /\ phase' = "failing"
  /\ UNCHANGED <<coreVars, histVars, anyCallback>>

Unmount ==
  /\ TearingDown
  /\ componentWillUnmount
  /\ phase' = IF phase = "leaving" THEN "left" ELSE "failed"

LifeNext ==
  \/ Mount
  \/ Navigate
  \/ RenderFault
  \/ Unmount
  \/ DeliverNext
  \/ DeliverComplete
  \/ DeliverError

LifeSpec == Init /\ [][LifeNext]_vars /\ WF_vars(Unmount)

\* ======================= properties =======================

\* C1: after componentWillUnmount has been called, no callback delivered
\* afterwards changes this.state: response, complete and error keep the
\* values they had when componentWillUnmount ended.
C1_StateFrozenAfterDeactivate ==
  consecDeact > 0 => state = atDeactivate

\* C2 as stated: over any sequence of componentDidMount and
\* componentWillUnmount calls, at most one handle is obtained and not yet
\* released.
C2_AtMostOneOutstanding_AnySequence ==
  Cardinality(Outstanding) <= 1

\* C2 amended: as long as componentDidMount was never called while a handle
\* was held, at most one handle is obtained and not yet released, and it is
\* the one stored in this.subscription.
C2_AtMostOneOutstanding ==
  ~heldOnActivate =>
     /\ Cardinality(Outstanding) <= 1
     /\ Outstanding = IF subscription = null THEN {} ELSE {subscription}

C2_Witness ==
  /\ ~heldOnActivate
  /\ issued >= 2
  /\ subscription = issued
  /\ Outstanding = {subscription}

\* C3: after a mount and before the unmount, whenever next notifications
\* have been delivered, state.response is the payload of the most recent one.
C3_ResponseIsLastDelivered ==
  (consecDeact = 0 /\ delivered # EmptyStr) => state.response = delivered

C3_Witness ==
  /\ subscription # null
  /\ consecDeact = 0
  /\ delivered \in Payloads
  /\ state.response = delivered

\* C4: two componentWillUnmount calls in succession, with no
\* componentDidMount in between, call unsubscribe at most once.
C4_DoubleDeactivateReleasesOnce ==
  consecDeact = 2 => relInRun <= 1

C4_Witness ==
  /\ consecDeact = 2
  /\ relInRun = 1
  /\ subscription = null

\* C5: componentWillUnmount on a controller on which componentDidMount never
\* ran does not throw, calls no unsubscribe, and leaves this.subscription
\* (null) and this.state as the constructor set them.
C5_DeactivateBeforeActivateIsNoOp ==
  (~activated /\ consecDeact > 0) =>
     /\ ~thrown
     /\ subscription = null
     /\ state = InitState
     /\ \A h \in Handles : released[h] = 0

C5_Witness ==
  /\ ~activated
  /\ consecDeact > 0

\* C6: no step clears a terminal flag: once state.complete is true it stays
\* true, and once state.error differs from the constructor's '' it never
\* returns to ''.
C6_TerminalFlagsStick ==
  [][/\ state.complete => state'.complete
     /\ state.error # EmptyStr => state'.error # EmptyStr]_vars

C6_Witness ==
  /\ lateNext
  /\ state.complete
  /\ state.error # EmptyStr
  /\ state.response # EmptyStr

\* C7: when invokeQuery raises inside componentDidMount, the failure is
\* stored in state.error and is not thrown to the caller.
C7_ConstructionFailureSurfacedViaError ==
  activateRaised => (~thrown /\ state.error # EmptyStr)

\* C8: a componentWillUnmount that runs while a handle is held, a terminal
\* callback delivered before or not, calls unsubscribe on that handle exactly
\* once and then clears this.subscription.
C8_DeactivateReleasesHeldHandleOnce ==
  (consecDeact > 0 /\ heldAtDeact # null) =>
     /\ released[heldAtDeact] = 1
     /\ subscription = null

\* the scenario activate, payload, complete, deactivate
C8_Witness ==
  /\ consecDeact = 1
  /\ heldAtDeact # null
  /\ heldAtDeact \in terminated
  /\ state.response # EmptyStr
  /\ state.complete
  /\ released[heldAtDeact] = 1
  /\ subscription = null

\* C9: on every path by which the hosted view's lifetime ends, a route
\* change or a failure, every handle obtained in componentDidMount is
\* eventually released, and none is left once the lifetime is over.
C9_NoLeakedHandle ==
  /\ [](Ended => Outstanding = {})
  /\ (TearingDown ~> (Ended /\ Outstanding = {}))

C9_Witness ==
  /\ phase = "failed"
  /\ issued = 1
  /\ released[1] = 1
  /\ subscription = null

\* C10: once complete or error has been delivered for a handle, a next
\* delivered for that handle leaves state.response unchanged.
C10_NoPayloadAfterTerminal ==
  [][\A h \in terminated : \A p \in Payloads :
       subscribe_next(h, p) => state'.response = state.response]_vars

\* C11: each callback writes only its own field of this.state: next sets
\* response and leaves complete and error, complete sets complete to true and
\* leaves response and error, error sets error and leaves response and
\* complete.
C11_CallbackWritesOwnFieldOnly ==
  [][/\ \A h \in Handles : \A p \in Payloads :
          subscribe_next(h, p) =>
             /\ state'.response = p
             /\ state'.complete = state.complete
             /\ state'.error = state.error
     /\ \A h \in Handles :
          subscribe_complete(h) =>
             /\ state'.complete = TRUE
             /\ state'.response = state.response
             /\ state'.error = state.error
     /\ \A h \in Handles : \A e \in ErrorValues :
          subscribe_error(h, e) =>
             /\ state'.error = e
             /\ state'.response = state.response
             /\ state'.complete = state.complete]_vars

\* the scenario activate, payload, complete: the payload is still displayed,
\* and no error has been stored
C11_Witness ==
  /\ subscription # null
  /\ delivered \in Payloads
  /\ state.response = delivered
  /\ state.complete
  /\ state.error = EmptyStr
  /\ subscription \in terminated

\* C12: render raises in no reachable this.state, whatever value the error
\* callback has stored, an absent one included.
C12_RenderNeverFaults ==
  ~RenderFaults(state)

\* C13: this.state is written only by the callbacks: componentDidMount and
\* componentWillUnmount leave response, complete and error as they are, so
\* until the first callback is delivered the state is the constructor's, and
\* componentWillUnmount does not reset it.
C13_StateWrittenOnlyByCallbacks ==
  /\ [](~anyCallback => state = InitState)
  /\ [][(componentDidMount \/ componentWillUnmount) => state' = state]_vars

\* a mount, callbacks that changed every field, then an unmount: the state is
\* still what the callbacks left
C13_Witness ==
  /\ anyCallback
  /\ consecDeact = 1
  /\ heldAtDeact # null
  /\ state = atDeactivate
  /\ state.response # EmptyStr
  /\ state.complete
  /\ state.error # EmptyStr

====
